---- MODULE Spec2Model ----
(***************************************************************************)
(* tap-marketo, tap_marketo/sync.py: the sync orchestrator, the five       *)
(* stream strategies and the export bookkeeping kept in the Singer state.  *)
(*                                                                         *)
(* Time is counted in ticks.  A second has TicksPerSec ticks (pendulum     *)
(* keeps microseconds), a day has SecsPerDay seconds.  An ISO-8601 string  *)
(* is the pair <<second, tick within the second>>; None is <<>> for a      *)
(* timestamp string, 0 for an export id or a page token and "None" for a   *)
(* stream id.                                                              *)
(***************************************************************************)
EXTENDS Integers, Sequences, FiniteSets, TLC

VARIABLES
    catalog,          \* catalog["streams"]: sequence of [tap_stream_id, selected]
    state,            \* the state dict that sync() and the strategies mutate
    persisted,        \* the last state handed to singer.write_state
    use_corona,       \* client.use_corona
    clock,            \* the last value pendulum.utcnow() returned
    pc,               \* position of the run
    idx,              \* index of the stream the loop of sync() is at
    starting_stream,  \* local of sync()
    loc,              \* locals of the running strategy
    next_export,      \* the id client.create_export hands out next
    failed,           \* export ids for which wait_for_export raised ExportFailed
    req,              \* the client request issued by the last step
    err,              \* the exception that left sync(), "none" if none
    ran,              \* the stream ids whose strategy this run has entered
    resume,           \* currently_syncing as the run found it
    runs,             \* number of the run
    hist,             \* what the run has observed so far (for the properties)
    emitted           \* the pages of the paginated stream whose records have all
                      \* been passed on, in this run or the ones before, since the
                      \* stream last finished

vars == <<catalog, use_corona, state, persisted, clock, pc, idx, starting_stream, loc,
          next_export, failed, req, err, ran, resume, runs, hist, emitted>>

----------------------------------------------------------------------------
(* Bounds of the model *)

MaxStreams == 2        \* streams in a catalog
MaxRuns == 2           \* invocations of sync() in a behaviour
MaxPages == 2          \* pages the server holds for a paginated or offset query
MaxClockAdvance == 1   \* ticks the clock may advance in a behaviour
TicksPerSec == 2       \* sub-second resolution
SecsPerDay == 1        \* length of a day
MaxCalls == 2          \* calls of get_or_create in a row
MaxExportSize == 1     \* fileSize of an export, in chunks

(* Program constants *)

MAX_EXPORT_DAYS == 30
ATTRIBUTION_WINDOW_DAYS == 1

None == "None"
NoneId == 0
NoneStr == <<>>

Day == SecsPerDay * TicksPerSec

\* stop = pendulum.parse("2017-06-17T00:00:00+00:00"), on the model's time axis
stop == 10 * Day

\* the clock when the first run starts: the last tick of a second
Clock0 == stop + 25 * Day + (TicksPerSec - 1)
MaxClock == Clock0 + MaxClockAdvance

----------------------------------------------------------------------------
(* pendulum *)

isoformat(t) == <<t \div TicksPerSec, t % TicksPerSec>>

parse(s) == s[1] * TicksPerSec + s[2]

replace_microsecond_0(t) == t - (t % TicksPerSec)

add_days(t, n) == t + n * Day

subtract_days(t, n) == t - n * Day

\* the values a reading of the clock can return, given the last reading
utcnow(last) == last..MaxClock

----------------------------------------------------------------------------
(* singer.bookmarks and singer.write_state, as sync.py uses them.  The state
   dict is mutated in place; write_state emits a snapshot of it. *)

get_bookmark(st, sid, key) == st.bookmarks[sid][key]

write_bookmark(st, sid, key, val) == [st EXCEPT !.bookmarks[sid][key] = val]

get_currently_syncing(st) == st.currently_syncing

set_currently_syncing(st, sid) == [st EXCEPT !.currently_syncing = sid]

\* e = [state, persisted]
write_state(e) == [e EXCEPT !.persisted = e.state]

Env == [state |-> state, persisted |-> persisted]

----------------------------------------------------------------------------
(* The streams of the model and the dispatch of sync() *)

ActivityStreams == {"activities_1"}

PaginatedStreams == {"campaigns", "lists"}

\* the stream ids a catalog of the model draws from: one per branch of the
\* dispatch ("campaigns" stands for both paginated streams)
StreamIds ==
    {"activity_types", "leads", "campaigns", "programs", "other"} \cup ActivityStreams

Streams == [tap_stream_id : StreamIds, selected : BOOLEAN]

\* sync() reads nothing of an unselected stream but its selected flag: its id
\* reaches neither the comparison with starting_stream nor the dispatch.  The
\* unselected streams of the model carry one of two ids.
UnselectedIds == {"activities_1", "other"}

Catalogs ==
    UNION {{c \in [1..n -> Streams] :
               /\ \A i, j \in 1..n : i # j => c[i].tap_stream_id # c[j].tap_stream_id
               /\ \A i \in 1..n :
                      ~c[i].selected => c[i].tap_stream_id \in UnselectedIds}
           : n \in 0..MaxStreams}

ids(c) == {c[i].tap_stream_id : i \in 1..Len(c)}

\* the branch of the if/elif chain of sync() that a stream id takes
dispatch(sid) ==
    IF sid = "activity_types" THEN "sync_activity_types"
    ELSE IF sid = "leads" THEN "sync_leads"
    ELSE IF sid \in ActivityStreams THEN "sync_activities"
    ELSE IF sid \in PaginatedStreams THEN "sync_paginated"
    ELSE IF sid = "programs" THEN "sync_programs"
    ELSE "not_implemented"

\* the bookmark values a state file starts with
StartDates ==
    {Clock0 - 30 * Day, Clock0 - 29 * Day, Clock0 + 10 * Day}

\* a bookmark that is 45 days old when the run starts
Bookmark45 == Clock0 - 45 * Day

\* the bookmark values a state file of catalog c starts with.  Only sync_leads
\* and sync_activities compare the bookmark with a time; the other strategies
\* pass it on as it is.  The 45 days old bookmark takes two export windows to
\* catch up, which only shows in leads.
StartDatesFor(c) ==
    IF \E i \in 1..Len(c) : c[i].tap_stream_id = "leads" /\ c[i].selected
      THEN StartDates \cup {Bookmark45}
    ELSE IF \E i \in 1..Len(c) :
                c[i].tap_stream_id \in ActivityStreams /\ c[i].selected
      THEN StartDates
    ELSE {Clock0 - 29 * Day}

NoReq == [kind |-> "none", id |-> NoneId]

LocInit ==
    [export_id |-> NoneId, export_end |-> 0, bookmark_date |-> 0,
     og_bookmark_value |-> 0, start_pen |-> 0, job_started |-> 0,
     start_date |-> NoneStr, end_date |-> NoneStr, next_page_token |-> NoneId,
     nextPageToken |-> NoneId, offset |-> 0]

NoQuery ==
    [id |-> NoneId, field |-> "none", startAt |-> NoneStr, endAt |-> NoneStr,
     start |-> 0, now2 |-> 0, held |-> NoneId]

HistInit ==
    [export_failed |-> FALSE, raised |-> "none", rk_before |-> NoneStr,
     emitted_after_fail |-> 0, query |-> NoQuery, calls |-> <<>>,
     windows |-> <<>>, window_end |-> 0]

InitState(b, cs) ==
    [currently_syncing |-> cs,
     bookmarks |-> [sid \in StreamIds |->
                       [rk |-> isoformat(b), export_id |-> NoneId,
                        export_end |-> NoneStr, next_page_token |-> NoneId]]]

Init ==
    /\ catalog \in Catalogs
    \* only sync_leads reads client.use_corona before the final log lines
    /\ use_corona \in (IF "leads" \in ids(catalog) THEN BOOLEAN ELSE {FALSE})
    \* currently_syncing names no stream, a stream of the catalog, or one that
    \* the catalog does not hold
    /\ \E b \in StartDatesFor(catalog), cs \in {None, "other"} \cup ids(catalog) :
          state = InitState(b, cs)
    /\ persisted = state
    /\ clock = Clock0
    /\ pc = "start"
    /\ idx = 1
    /\ starting_stream = None
    /\ loc = LocInit
    /\ next_export = 1
    /\ failed = {}
    /\ req = NoReq
    /\ err = "none"
    /\ ran = <<>>
    /\ resume = state.currently_syncing
    /\ runs = 1
    /\ hist = HistInit
    /\ emitted = {}

stream == catalog[idx]

tap_stream_id == catalog[idx].tap_stream_id


----------------------------------------------------------------------------
(* The export bookkeeping *)

\* update_state_with_export_info without its singer.write_state(state)
update_state_with_export_info_unsaved(e, sid, bookmark, export_id, export_end) ==
    LET s1 == write_bookmark(e.state, sid, "export_id", export_id)
        s2 == write_bookmark(s1, sid, "export_end", export_end)
        s3 == IF bookmark # NoneStr THEN write_bookmark(s2, sid, "rk", bookmark) ELSE s2
    IN  [e EXCEPT !.state = s3]

update_state_with_export_info(e, sid, bookmark, export_id, export_end) ==
    LET s1 == write_bookmark(e.state, sid, "export_id", export_id)
        s2 == write_bookmark(s1, sid, "export_end", export_end)
        s3 == IF bookmark # NoneStr THEN write_bookmark(s2, sid, "rk", bookmark) ELSE s2
    IN  write_state([e EXCEPT !.state = s3])

\* get_or_create_export_for_leads without the test of the stored export_id
get_or_create_export_for_leads_always(e, sid, corona, start_date, now1, now2, new_id) ==
    LET export_end == replace_microsecond_0(
                          IF add_days(start_date, MAX_EXPORT_DAYS) >= now1
                            THEN now2 ELSE add_days(start_date, MAX_EXPORT_DAYS))
    IN  [e |-> update_state_with_export_info(
                   e, sid, NoneStr, new_id, isoformat(export_end)),
         export_id |-> new_id,
         export_end |-> export_end,
         created |-> TRUE,
         query |-> [id |-> new_id,
                    field |-> IF corona THEN "updatedAt" ELSE "createdAt",
                    startAt |-> isoformat(start_date),
                    endAt |-> isoformat(export_end),
                    start |-> start_date, now2 |-> now2,
                    held |-> get_bookmark(e.persisted, sid, "export_id")]]

\* now1, now2: the two readings of pendulum.utcnow(); new_id: what
\* client.create_export returns
get_or_create_export_for_leads(e, sid, corona, start_date, now1, now2, new_id) ==
    LET export_id == get_bookmark(e.state, sid, "export_id")
        stored_end == get_bookmark(e.state, sid, "export_end")
    IN  IF export_id = NoneId
          THEN LET query_field == IF corona THEN "updatedAt" ELSE "createdAt"
                   end0 == add_days(start_date, MAX_EXPORT_DAYS)
                   end1 == IF end0 >= now1 THEN now2 ELSE end0
                   export_end == replace_microsecond_0(end1)
               IN  [e |-> update_state_with_export_info(
                              e, sid, NoneStr, new_id, isoformat(export_end)),
                    export_id |-> new_id,
                    export_end |-> export_end,
                    created |-> TRUE,
                    query |-> [id |-> new_id, field |-> query_field,
                               startAt |-> isoformat(start_date),
                               endAt |-> isoformat(export_end),
                               start |-> start_date, now2 |-> now2,
                               held |-> get_bookmark(e.persisted, sid, "export_id")]]
          ELSE [e |-> e, export_id |-> export_id, export_end |-> parse(stored_end),
                created |-> FALSE, query |-> NoQuery]

\* get_or_create_export_for_activities without the test of the stored export_id
get_or_create_export_for_activities_always(e, sid, now1, now2, new_id) ==
    LET start_pen == parse(get_bookmark(e.state, sid, "rk"))
        end_pen == replace_microsecond_0(
                       IF add_days(start_pen, MAX_EXPORT_DAYS) >= now1
                         THEN now2 ELSE add_days(start_pen, MAX_EXPORT_DAYS))
    IN  [e |-> update_state_with_export_info(e, sid, NoneStr, new_id, isoformat(end_pen)),
         export_id |-> new_id,
         created |-> TRUE,
         query |-> [id |-> new_id, field |-> "createdAt",
                    startAt |-> isoformat(start_pen), endAt |-> isoformat(end_pen),
                    start |-> start_pen, now2 |-> now2,
                    held |-> get_bookmark(e.persisted, sid, "export_id")]]

get_or_create_export_for_activities(e, sid, now1, now2, new_id) ==
    LET export_id == get_bookmark(e.state, sid, "export_id")
    IN  IF export_id = NoneId
          THEN LET start_date == get_bookmark(e.state, sid, "rk")
                   start_pen == parse(start_date)
                   end0 == add_days(start_pen, MAX_EXPORT_DAYS)
                   end1 == IF end0 >= now1 THEN now2 ELSE end0
                   end_pen == replace_microsecond_0(end1)
                   end_date == isoformat(end_pen)
               IN  [e |-> update_state_with_export_info(e, sid, NoneStr, new_id, end_date),
                    export_id |-> new_id,
                    created |-> TRUE,
                    query |-> [id |-> new_id, field |-> "createdAt",
                               startAt |-> isoformat(start_pen), endAt |-> end_date,
                               start |-> start_pen, now2 |-> now2,
                               held |-> get_bookmark(e.persisted, sid, "export_id")]]
          ELSE [e |-> e, export_id |-> export_id, created |-> FALSE, query |-> NoQuery]

\* the except clause of sync_leads without its update_state_with_export_info
leads_on_export_failed_keeps_export(e, sid) == [e |-> e, reraise |-> FALSE]

\* the except clause around client.wait_for_export in sync_leads
leads_on_export_failed(e, sid) ==
    [e |-> update_state_with_export_info(e, sid, NoneStr, NoneId, NoneStr),
     reraise |-> FALSE]

\* the except clauses for a failed activities export moving the bookmark to
\* the end of the failed window as they clear the export
activities_on_export_failed_advances(e, sid) ==
    [e |-> update_state_with_export_info(
               e, sid, get_bookmark(e.state, sid, "export_end"), NoneId, NoneStr),
     reraise |-> FALSE]

\* wait_for_activity_export clears and re-raises; sync_activities catches,
\* clears again and logs
activities_on_export_failed(e, sid) ==
    LET e1 == update_state_with_export_info(e, sid, NoneStr, NoneId, NoneStr)
    IN  [e |-> update_state_with_export_info(e1, sid, NoneStr, NoneId, NoneStr),
         reraise |-> FALSE]

\* the except clause of the row loop without its update_state_with_export_info
on_rows_exception_keeps_export(e, sid) == e

\* the except clause around the row loop in sync_leads and sync_activities
on_rows_exception(e, sid) ==
    update_state_with_export_info(e, sid, NoneStr, NoneId, NoneStr)

\* gen_export_rows after get_export_size returned export_size: the rows it
\* yields and the exception that ends it.  The loop body calls
\* download_utf8_chunk, a name the module never binds (it defines
\* download_chunk), so the first iteration raises NameError before any range
\* request; with no iteration leftover_row is still None and len() raises
\* TypeError.
\* ranges: the byte ranges it asks download_chunk for.
gen_export_rows(export_size) ==
    IF 0 < export_size
      THEN [rows |-> <<>>, err |-> "NameError", ranges |-> <<>>]
      ELSE [rows |-> <<>>, err |-> "TypeError", ranges |-> <<>>]

\* the test of sync_leads that decides whether a record is written
leads_emits(corona, record_updated_at, og_bookmark_value) ==
    \/ corona
    \/ record_updated_at = NoneStr
    \/ parse(record_updated_at) >= og_bookmark_value

\* sync_paginated, after a response that carries nextPageToken
paginated_store_token(e, sid, token) ==
    write_state([e EXCEPT !.state = write_bookmark(e.state, sid, "next_page_token", token)])

\* the end of sync_paginated without the reset of next_page_token
paginated_finish_keeps_token(e, sid, job_started) ==
    write_state([e EXCEPT !.state = write_bookmark(e.state, sid, "rk", job_started)])

\* sync_paginated, after the loop
paginated_finish(e, sid, job_started) ==
    LET s1 == write_bookmark(e.state, sid, "next_page_token", NoneId)
        s2 == write_bookmark(s1, sid, "rk", job_started)
    IN  write_state([e EXCEPT !.state = s2])

\* the body of the loop of sync_paginated storing the token of the response
\* before it formats and writes the records
paginated_page_token_first(e, sid, token, job_started, rows_raise) ==
    LET e1 == IF token = NoneId THEN e ELSE paginated_store_token(e, sid, token)
    IN  IF rows_raise
          THEN [e |-> e1, processed |-> FALSE]
          ELSE [e |-> IF token = NoneId
                        THEN paginated_finish(e, sid, job_started) ELSE e1,
                processed |-> TRUE]

\* the body of the loop of sync_paginated (and the lines after the loop) for a
\* response that carries token (NoneId: none).  rows_raise: format_values
\* raises on a record of the page.  processed: every record of the page was
\* passed to the filter.
paginated_page(e, sid, token, job_started, rows_raise) ==
    IF rows_raise
      THEN [e |-> e, processed |-> FALSE]
    ELSE IF token = NoneId
      THEN [e |-> paginated_finish(e, sid, job_started), processed |-> TRUE]
    ELSE [e |-> paginated_store_token(e, sid, token), processed |-> TRUE]

\* sync_programs, after the loop
programs_finish(e, end_date) ==
    write_state([e EXCEPT !.state = write_bookmark(e.state, "programs", "rk", end_date)])

maxReturn == 200

\* The server holds pages 1..MaxPages of a paginated query; the token that a
\* response carries is the number of the page it leads to, and the request
\* without a token gets page 1.  The last page carries no token.
page_of(token) == IF token = NoneId THEN 1 ELSE token

nextPageToken_of(page, last) == IF page < last THEN page + 1 ELSE NoneId

ExportSizes == 0..MaxExportSize

\* sync_paginated building params without looking at the stored token
paginated_params_fresh(next_page_token) == NoneId

\* params["nextPageToken"] of sync_paginated before its first request (NoneId:
\* the key is absent); a token is a non-empty string, so the test of its truth
\* is the test against None
paginated_params(next_page_token) ==
    IF next_page_token # NoneId THEN next_page_token ELSE NoneId

----------------------------------------------------------------------------
(* sync() *)

SyncStart ==
    /\ pc = "start"
    /\ starting_stream' = get_currently_syncing(state)
    /\ idx' = 1
    /\ pc' = "loop"
    /\ req' = NoReq
    /\ UNCHANGED <<catalog, emitted, use_corona, state, persisted, clock, loc, next_export,
                   failed, err, ran, resume, runs, hist>>

SyncSkipUnselected ==
    /\ pc = "loop"
    /\ idx <= Len(catalog)
    /\ ~stream.selected
    /\ idx' = idx + 1
    /\ req' = NoReq
    /\ UNCHANGED <<catalog, emitted, use_corona, state, persisted, clock, pc, starting_stream,
                   loc, next_export, failed, err, ran, resume, runs, hist>>

SyncSkipSynced ==
    /\ pc = "loop"
    /\ idx <= Len(catalog)
    /\ stream.selected
    /\ starting_stream # None /\ tap_stream_id # starting_stream
    /\ idx' = idx + 1
    /\ req' = NoReq
    /\ UNCHANGED <<catalog, emitted, use_corona, state, persisted, clock, pc, starting_stream,
                   loc, next_export, failed, err, ran, resume, runs, hist>>

\* sync() marking the stream it starts, without the singer.write_state(state)
mark_currently_syncing_unsaved(e, sid) ==
    [e EXCEPT !.state = set_currently_syncing(e.state, sid)]

\* sync() marking the stream it starts (or None when the stream is finished)
mark_currently_syncing(e, sid) ==
    write_state([e EXCEPT !.state = set_currently_syncing(e.state, sid)])

SyncStartStream ==
    /\ pc = "loop"
    /\ idx <= Len(catalog)
    /\ stream.selected
    /\ ~(starting_stream # None /\ tap_stream_id # starting_stream)
    /\ starting_stream' = None
    /\ LET e == mark_currently_syncing(Env, tap_stream_id)
       IN  state' = e.state /\ persisted' = e.persisted
    /\ IF dispatch(tap_stream_id) = "not_implemented"
         THEN pc' = "aborted" /\ err' = "NotImplemented" /\ ran' = ran
         ELSE pc' = dispatch(tap_stream_id) /\ err' = err
              /\ ran' = Append(ran, tap_stream_id)
    /\ loc' = LocInit
    /\ hist' = HistInit
    /\ req' = NoReq
    /\ UNCHANGED <<catalog, emitted, use_corona, clock, idx, next_export, failed, resume, runs>>

SyncFinishStream ==
    /\ pc = "stream_done"
    /\ LET e == mark_currently_syncing(Env, None)
       IN  state' = e.state /\ persisted' = e.persisted
    /\ idx' = idx + 1
    /\ pc' = "loop"
    /\ loc' = LocInit
    /\ req' = NoReq
    /\ emitted' = {}
    /\ UNCHANGED <<catalog, use_corona, clock, starting_stream, next_export, failed,
                   err, ran, resume, runs, hist>>

SyncReturn ==
    /\ pc = "loop"
    /\ idx > Len(catalog)
    /\ pc' = "done"
    /\ req' = NoReq
    /\ UNCHANGED <<catalog, emitted, use_corona, state, persisted, clock, idx, starting_stream,
                   loc, next_export, failed, err, ran, resume, runs, hist>>

\* the next invocation of the tap reads the last state the previous one wrote
NextRun ==
    /\ pc \in {"done", "aborted"}
    /\ runs < MaxRuns
    /\ runs' = runs + 1
    /\ state' = persisted
    /\ resume' = get_currently_syncing(persisted)
    /\ pc' = "start"
    /\ idx' = 1
    /\ starting_stream' = None
    /\ loc' = LocInit
    /\ req' = NoReq
    /\ err' = "none"
    /\ ran' = <<>>
    /\ hist' = HistInit
    /\ UNCHANGED <<catalog, emitted, use_corona, persisted, clock, next_export, failed>>

----------------------------------------------------------------------------
(* sync_activity_types *)

SyncActivityTypes ==
    /\ pc = "sync_activity_types"
    /\ req' = [kind |-> "request", id |-> NoneId]
    /\ pc' = "stream_done"
    /\ UNCHANGED <<catalog, emitted, use_corona, state, persisted, clock, idx, starting_stream,
                   loc, next_export, failed, err, ran, resume, runs, hist>>

\* client.request or format_values raises
SyncActivityTypesError ==
    /\ pc = "sync_activity_types"
    /\ req' = [kind |-> "request", id |-> NoneId]
    /\ pc' = "aborted"
    /\ err' \in {"ClientError", "FormatError"}
    /\ UNCHANGED <<catalog, emitted, use_corona, state, persisted, clock, idx, starting_stream,
                   loc, next_export, failed, ran, resume, runs, hist>>

----------------------------------------------------------------------------
(* sync_leads *)

LeadsEnter ==
    /\ pc = "sync_leads"
    \* tap_job_start_time = pendulum.utcnow() is never read
    /\ LET og == parse(get_bookmark(state, tap_stream_id, "rk"))
       IN  loc' = [loc EXCEPT !.og_bookmark_value = og,
                              !.bookmark_date = subtract_days(og, ATTRIBUTION_WINDOW_DAYS)]
    /\ pc' = "leads_loop"
    /\ req' = NoReq
    /\ UNCHANGED <<catalog, emitted, use_corona, state, persisted, clock, idx, starting_stream,
                   next_export, failed, err, ran, resume, runs, hist>>

LeadsGetOrCreateExport ==
    /\ pc = "leads_loop"
    /\ loc.bookmark_date < stop
    /\ \E now1 \in utcnow(clock) : \E now2 \in utcnow(now1) :
          LET g == get_or_create_export_for_leads(
                       Env, tap_stream_id, use_corona, loc.bookmark_date,
                       now1, now2, next_export)
          IN  /\ state' = g.e.state
              /\ persisted' = g.e.persisted
              /\ loc' = [loc EXCEPT !.export_id = g.export_id,
                                    !.export_end = g.export_end]
              /\ IF g.created
                   THEN /\ clock' = now2
                        /\ next_export' = next_export + 1
                        /\ req' = [kind |-> "create", id |-> g.export_id]
                        /\ hist' = [hist EXCEPT !.query = g.query,
                                                !.windows = Append(@, g.query),
                                                !.window_end = g.export_end]
                   ELSE /\ now1 = clock /\ now2 = clock
                        /\ UNCHANGED <<clock, next_export>>
                        /\ hist' = [hist EXCEPT !.window_end = g.export_end]
                        /\ req' = NoReq
    /\ pc' = "leads_wait"
    /\ UNCHANGED <<catalog, emitted, use_corona, idx, starting_stream, failed, err, ran,
                   resume, runs>>

\* client.create_export raises
LeadsCreateExportError ==
    /\ pc = "leads_loop"
    /\ loc.bookmark_date < stop
    /\ get_bookmark(state, tap_stream_id, "export_id") = NoneId
    /\ \E now1 \in utcnow(clock) : \E now2 \in utcnow(now1) : clock' = now2
    /\ req' = [kind |-> "create", id |-> NoneId]
    /\ pc' = "aborted"
    /\ err' = "ClientError"
    /\ UNCHANGED <<catalog, emitted, use_corona, state, persisted, idx, starting_stream, loc,
                   next_export, failed, ran, resume, runs, hist>>

LeadsReturn ==
    /\ pc = "leads_loop"
    /\ ~(loc.bookmark_date < stop)
    /\ LET e == update_state_with_export_info(
                    Env, tap_stream_id, isoformat(loc.bookmark_date), NoneId, NoneStr)
       IN  state' = e.state /\ persisted' = e.persisted
    /\ pc' = "stream_done"
    /\ req' = NoReq
    /\ UNCHANGED <<catalog, emitted, use_corona, clock, idx, starting_stream, loc, next_export,
                   failed, err, ran, resume, runs, hist>>

LeadsWaitOk ==
    /\ pc = "leads_wait"
    /\ req' = [kind |-> "wait", id |-> loc.export_id]
    /\ pc' = "leads_rows"
    /\ UNCHANGED <<catalog, emitted, use_corona, state, persisted, clock, idx, starting_stream,
                   loc, next_export, failed, err, ran, resume, runs, hist>>

LeadsWaitExportFailed ==
    /\ pc = "leads_wait"
    /\ req' = [kind |-> "wait", id |-> loc.export_id]
    /\ failed' = failed \cup {loc.export_id}
    /\ hist' = [hist EXCEPT !.export_failed = TRUE]
    /\ LET h == leads_on_export_failed(Env, tap_stream_id)
       IN  /\ state' = h.e.state
           /\ persisted' = h.e.persisted
           /\ IF h.reraise
                THEN pc' = "aborted" /\ err' = "ExportFailed"
                ELSE pc' = "leads_rows" /\ err' = err
    /\ UNCHANGED <<catalog, emitted, use_corona, clock, idx, starting_stream, loc, next_export,
                   ran, resume, runs>>

\* client.wait_for_export raises something other than ExportFailed
LeadsWaitError ==
    /\ pc = "leads_wait"
    /\ req' = [kind |-> "wait", id |-> loc.export_id]
    /\ pc' = "aborted"
    /\ err' = "ClientError"
    /\ UNCHANGED <<catalog, emitted, use_corona, state, persisted, clock, idx, starting_stream,
                   loc, next_export, failed, ran, resume, runs, hist>>

\* the row loop, from the status query of gen_export_rows to the end of the
\* iteration of the while loop
LeadsRows ==
    /\ pc = "leads_rows"
    /\ req' = [kind |-> "status", id |-> loc.export_id]
    /\ \E export_size \in ExportSizes :
          LET g == gen_export_rows(export_size)
              written == SelectSeq(g.rows,
                             LAMBDA r : leads_emits(use_corona, r.updatedAt,
                                                    loc.og_bookmark_value))
              rk == get_bookmark(state, tap_stream_id, "rk")
          IN  IF g.err # "none"
                THEN LET e == on_rows_exception(Env, tap_stream_id)
                     IN  /\ state' = e.state
                         /\ persisted' = e.persisted
                         /\ pc' = "aborted"
                         /\ err' = g.err
                         /\ loc' = loc
                         /\ hist' = [hist EXCEPT
                                !.raised = g.err, !.rk_before = rk,
                                !.emitted_after_fail =
                                    IF hist.export_failed THEN @ + Len(written) ELSE @]
                ELSE LET e == update_state_with_export_info(
                                  Env, tap_stream_id,
                                  IF use_corona THEN isoformat(loc.export_end) ELSE NoneStr,
                                  NoneId, NoneStr)
                     IN  /\ state' = e.state
                         /\ persisted' = e.persisted
                         /\ pc' = "leads_loop"
                         /\ err' = err
                         /\ loc' = [loc EXCEPT !.bookmark_date = loc.export_end]
                         /\ hist' = [hist EXCEPT
                                !.emitted_after_fail =
                                    IF hist.export_failed THEN @ + Len(written) ELSE @]
    /\ UNCHANGED <<catalog, emitted, use_corona, clock, idx, starting_stream, next_export,
                   failed, ran, resume, runs>>

\* get_export_size raises
LeadsRowsStatusError ==
    /\ pc = "leads_rows"
    /\ req' = [kind |-> "status", id |-> loc.export_id]
    /\ LET e == on_rows_exception(Env, tap_stream_id)
       IN  state' = e.state /\ persisted' = e.persisted
    /\ pc' = "aborted"
    /\ err' = "ClientError"
    /\ hist' = [hist EXCEPT !.raised = "ClientError",
                            !.rk_before = get_bookmark(state, tap_stream_id, "rk")]
    /\ UNCHANGED <<catalog, emitted, use_corona, clock, idx, starting_stream, loc, next_export,
                   failed, ran, resume, runs>>

----------------------------------------------------------------------------
(* sync_activities *)

ActivitiesEnter ==
    /\ pc = "sync_activities"
    /\ \E job_started \in utcnow(clock) :
          /\ clock' = job_started
          /\ loc' = [loc EXCEPT
                 !.start_date = get_bookmark(state, tap_stream_id, "rk"),
                 !.start_pen = parse(get_bookmark(state, tap_stream_id, "rk")),
                 !.job_started = job_started]
    /\ pc' = "activities_loop"
    /\ req' = NoReq
    /\ UNCHANGED <<catalog, emitted, use_corona, state, persisted, idx, starting_stream,
                   next_export, failed, err, ran, resume, runs, hist>>

ActivitiesGetOrCreateExport ==
    /\ pc = "activities_loop"
    /\ loc.start_pen < loc.job_started
    /\ \E now1 \in utcnow(clock) : \E now2 \in utcnow(now1) :
          LET g == get_or_create_export_for_activities(
                       Env, tap_stream_id, now1, now2, next_export)
          IN  /\ state' = g.e.state
              /\ persisted' = g.e.persisted
              /\ loc' = [loc EXCEPT !.export_id = g.export_id]
              /\ IF g.created
                   THEN /\ clock' = now2
                        /\ next_export' = next_export + 1
                        /\ req' = [kind |-> "create", id |-> g.export_id]
                        /\ hist' = [hist EXCEPT
                               !.query = g.query,
                               !.windows = Append(@, g.query),
                               !.window_end = parse(get_bookmark(
                                   g.e.state, tap_stream_id, "export_end"))]
                   ELSE /\ now1 = clock /\ now2 = clock
                        /\ UNCHANGED <<clock, next_export>>
                        /\ hist' = [hist EXCEPT
                               !.window_end = parse(get_bookmark(
                                   g.e.state, tap_stream_id, "export_end"))]
                        /\ req' = NoReq
    /\ pc' = "activities_wait"
    /\ UNCHANGED <<catalog, emitted, use_corona, idx, starting_stream, failed, err, ran,
                   resume, runs>>

\* client.create_export raises
ActivitiesCreateExportError ==
    /\ pc = "activities_loop"
    /\ loc.start_pen < loc.job_started
    /\ get_bookmark(state, tap_stream_id, "export_id") = NoneId
    /\ \E now1 \in utcnow(clock) : \E now2 \in utcnow(now1) : clock' = now2
    /\ req' = [kind |-> "create", id |-> NoneId]
    /\ pc' = "aborted"
    /\ err' = "ClientError"
    /\ UNCHANGED <<catalog, emitted, use_corona, state, persisted, idx, starting_stream, loc,
                   next_export, failed, ran, resume, runs, hist>>

ActivitiesReturn ==
    /\ pc = "activities_loop"
    /\ ~(loc.start_pen < loc.job_started)
    /\ pc' = "stream_done"
    /\ req' = NoReq
    /\ UNCHANGED <<catalog, emitted, use_corona, state, persisted, clock, idx, starting_stream,
                   loc, next_export, failed, err, ran, resume, runs, hist>>

ActivitiesWaitOk ==
    /\ pc = "activities_wait"
    /\ req' = [kind |-> "wait", id |-> loc.export_id]
    /\ pc' = "activities_rows"
    /\ UNCHANGED <<catalog, emitted, use_corona, state, persisted, clock, idx, starting_stream,
                   loc, next_export, failed, err, ran, resume, runs, hist>>

ActivitiesWaitExportFailed ==
    /\ pc = "activities_wait"
    /\ req' = [kind |-> "wait", id |-> loc.export_id]
    /\ failed' = failed \cup {loc.export_id}
    /\ hist' = [hist EXCEPT !.export_failed = TRUE]
    /\ LET h == activities_on_export_failed(Env, tap_stream_id)
       IN  /\ state' = h.e.state
           /\ persisted' = h.e.persisted
           /\ IF h.reraise
                THEN pc' = "aborted" /\ err' = "ExportFailed"
                ELSE pc' = "activities_rows" /\ err' = err
    /\ UNCHANGED <<catalog, emitted, use_corona, clock, idx, starting_stream, loc, next_export,
                   ran, resume, runs>>

\* client.wait_for_export raises something other than ExportFailed
ActivitiesWaitError ==
    /\ pc = "activities_wait"
    /\ req' = [kind |-> "wait", id |-> loc.export_id]
    /\ pc' = "aborted"
    /\ err' = "ClientError"
    /\ UNCHANGED <<catalog, emitted, use_corona, state, persisted, clock, idx, starting_stream,
                   loc, next_export, failed, ran, resume, runs, hist>>

\* the row loop, from the status query of gen_export_rows to the end of the
\* iteration of the while loop
ActivitiesRows ==
    /\ pc = "activities_rows"
    /\ req' = [kind |-> "status", id |-> loc.export_id]
    /\ \E export_size \in ExportSizes :
          LET g == gen_export_rows(export_size)
              rk == get_bookmark(state, tap_stream_id, "rk")
              start_date == get_bookmark(state, tap_stream_id, "export_end")
          IN  IF g.err # "none"
                THEN LET e == on_rows_exception(Env, tap_stream_id)
                     IN  /\ state' = e.state
                         /\ persisted' = e.persisted
                         /\ pc' = "aborted"
                         /\ err' = g.err
                         /\ loc' = loc
                         /\ hist' = [hist EXCEPT
                                !.raised = g.err, !.rk_before = rk,
                                !.emitted_after_fail =
                                    IF hist.export_failed THEN @ + Len(g.rows) ELSE @]
                ELSE LET e == update_state_with_export_info(
                                  Env, tap_stream_id, start_date, NoneId, NoneStr)
                     IN  /\ state' = e.state
                         /\ persisted' = e.persisted
                         /\ hist' = [hist EXCEPT
                                !.emitted_after_fail =
                                    IF hist.export_failed THEN @ + Len(g.rows) ELSE @]
                         \* pendulum.parse(None) raises TypeError
                         /\ IF start_date = NoneStr
                              THEN /\ pc' = "aborted"
                                   /\ err' = "TypeError"
                                   /\ loc' = loc
                              ELSE /\ pc' = "activities_loop"
                                   /\ err' = err
                                   /\ loc' = [loc EXCEPT
                                          !.start_date = start_date,
                                          !.start_pen = parse(start_date)]
    /\ UNCHANGED <<catalog, emitted, use_corona, clock, idx, starting_stream, next_export,
                   failed, ran, resume, runs>>

\* get_export_size raises
ActivitiesRowsStatusError ==
    /\ pc = "activities_rows"
    /\ req' = [kind |-> "status", id |-> loc.export_id]
    /\ LET e == on_rows_exception(Env, tap_stream_id)
       IN  state' = e.state /\ persisted' = e.persisted
    /\ pc' = "aborted"
    /\ err' = "ClientError"
    /\ hist' = [hist EXCEPT !.raised = "ClientError",
                            !.rk_before = get_bookmark(state, tap_stream_id, "rk")]
    /\ UNCHANGED <<catalog, emitted, use_corona, clock, idx, starting_stream, loc, next_export,
                   failed, ran, resume, runs>>

----------------------------------------------------------------------------
(* sync_paginated *)

PaginatedEnter ==
    /\ pc = "sync_paginated"
    /\ \E job_started \in utcnow(clock) :
          /\ clock' = job_started
          /\ loc' = [loc EXCEPT
                 !.start_date = get_bookmark(state, tap_stream_id, "rk"),
                 !.next_page_token =
                     get_bookmark(state, tap_stream_id, "next_page_token"),
                 !.nextPageToken = paginated_params(
                     get_bookmark(state, tap_stream_id, "next_page_token")),
                 !.job_started = job_started]
    /\ pc' = "paginated_loop"
    /\ req' = NoReq
    /\ UNCHANGED <<catalog, emitted, use_corona, state, persisted, idx, starting_stream,
                   next_export, failed, err, ran, resume, runs, hist>>

\* one iteration of the while loop: the request, the records of the page and
\* the state write that follows
PaginatedPage ==
    /\ pc = "paginated_loop"
    /\ req' = [kind |-> "page", id |-> loc.nextPageToken]
    /\ \E last \in 1..MaxPages :
          LET page == page_of(loc.nextPageToken)
              token == nextPageToken_of(page, last)
              r == paginated_page(Env, tap_stream_id, token,
                                  isoformat(loc.job_started), FALSE)
          IN  /\ state' = r.e.state
              /\ persisted' = r.e.persisted
              /\ emitted' = IF r.processed THEN emitted \cup {page} ELSE emitted
              /\ loc' = [loc EXCEPT !.nextPageToken =
                                        IF token = NoneId THEN @ ELSE token]
              /\ pc' = IF token = NoneId THEN "stream_done" ELSE "paginated_loop"
    /\ UNCHANGED <<catalog, use_corona, clock, idx, starting_stream, next_export,
                   failed, err, ran, resume, runs, hist>>

\* client.request raises
PaginatedError ==
    /\ pc = "paginated_loop"
    /\ req' = [kind |-> "page", id |-> loc.nextPageToken]
    /\ pc' = "aborted"
    /\ err' = "ClientError"
    /\ UNCHANGED <<catalog, emitted, use_corona, state, persisted, clock, idx,
                   starting_stream, loc, next_export, failed, ran, resume, runs, hist>>

\* format_values raises on a record of the page
PaginatedFormatError ==
    /\ pc = "paginated_loop"
    /\ req' = [kind |-> "page", id |-> loc.nextPageToken]
    /\ \E last \in 1..MaxPages :
          LET page == page_of(loc.nextPageToken)
              token == nextPageToken_of(page, last)
              r == paginated_page(Env, tap_stream_id, token,
                                  isoformat(loc.job_started), TRUE)
          IN  /\ state' = r.e.state
              /\ persisted' = r.e.persisted
              /\ emitted' = IF r.processed THEN emitted \cup {page} ELSE emitted
    /\ pc' = "aborted"
    /\ err' = "FormatError"
    /\ UNCHANGED <<catalog, use_corona, clock, idx, starting_stream, loc,
                   next_export, failed, ran, resume, runs, hist>>

----------------------------------------------------------------------------
(* sync_programs *)

ProgramsEnter ==
    /\ pc = "sync_programs"
    /\ \E end_date \in utcnow(clock) :
          /\ clock' = end_date
          /\ loc' = [loc EXCEPT
                 !.start_date = get_bookmark(state, "programs", "rk"),
                 !.end_date = isoformat(end_date),
                 !.offset = 0]
    /\ pc' = "programs_loop"
    /\ req' = NoReq
    /\ UNCHANGED <<catalog, emitted, use_corona, state, persisted, idx, starting_stream,
                   next_export, failed, err, ran, resume, runs, hist>>

\* a response with rows
ProgramsPage ==
    /\ pc = "programs_loop"
    /\ loc.offset \div maxReturn < MaxPages
    /\ req' = [kind |-> "programs", id |-> loc.offset]
    /\ loc' = [loc EXCEPT !.offset = @ + maxReturn]
    /\ UNCHANGED <<catalog, emitted, use_corona, state, persisted, clock, pc, idx,
                   starting_stream, next_export, failed, err, ran, resume, runs, hist>>

\* the response that carries NO_ASSET_MSG
ProgramsLast ==
    /\ pc = "programs_loop"
    /\ req' = [kind |-> "programs", id |-> loc.offset]
    /\ LET e == programs_finish(Env, loc.end_date)
       IN  state' = e.state /\ persisted' = e.persisted
    /\ pc' = "stream_done"
    /\ UNCHANGED <<catalog, emitted, use_corona, clock, idx, starting_stream, loc, next_export,
                   failed, err, ran, resume, runs, hist>>

\* client.request or format_values raises
ProgramsError ==
    /\ pc = "programs_loop"
    /\ req' = [kind |-> "programs", id |-> loc.offset]
    /\ pc' = "aborted"
    /\ err' \in {"ClientError", "FormatError"}
    /\ UNCHANGED <<catalog, emitted, use_corona, state, persisted, clock, idx, starting_stream,
                   loc, next_export, failed, ran, resume, runs, hist>>

Next ==
    \/ SyncStart
    \/ SyncSkipUnselected
    \/ SyncSkipSynced
    \/ SyncStartStream
    \/ SyncFinishStream
    \/ SyncReturn
    \/ NextRun
    \/ SyncActivityTypes
    \/ SyncActivityTypesError
    \/ LeadsEnter
    \/ LeadsGetOrCreateExport
    \/ LeadsCreateExportError
    \/ LeadsReturn
    \/ LeadsWaitOk
    \/ LeadsWaitExportFailed
    \/ LeadsWaitError
    \/ LeadsRows
    \/ LeadsRowsStatusError
    \/ ActivitiesEnter
    \/ ActivitiesGetOrCreateExport
    \/ ActivitiesCreateExportError
    \/ ActivitiesReturn
    \/ ActivitiesWaitOk
    \/ ActivitiesWaitExportFailed
    \/ ActivitiesWaitError
    \/ ActivitiesRows
    \/ ActivitiesRowsStatusError
    \/ PaginatedEnter
    \/ PaginatedPage
    \/ PaginatedError
    \/ PaginatedFormatError
    \/ ProgramsEnter
    \/ ProgramsPage
    \/ ProgramsLast
    \/ ProgramsError

Spec == Init /\ [][Next]_vars

----------------------------------------------------------------------------
(* get_or_create_export_for_leads and get_or_create_export_for_activities
   called repeatedly on one stream and one state dict *)

\* a state dict in which the stream holds an export created earlier
HeldState(b, sid) ==
    LET st == InitState(b, sid)
        end == isoformat(replace_microsecond_0(Clock0 - Day))
    IN  write_bookmark(write_bookmark(st, sid, "export_id", 1), sid, "export_end", end)

InitGoc ==
    /\ \E sid \in {"leads"} \cup ActivityStreams :
          /\ catalog = <<[tap_stream_id |-> sid, selected |-> TRUE]>>
          /\ \E b \in StartDates :
                /\ state \in {InitState(b, sid), HeldState(b, sid)}
                /\ loc = [LocInit EXCEPT
                       !.og_bookmark_value = b,
                       !.bookmark_date = subtract_days(b, ATTRIBUTION_WINDOW_DAYS)]
    /\ use_corona \in BOOLEAN
    /\ persisted = state
    /\ clock \in Clock0..MaxClock
    /\ pc = "get_or_create"
    /\ idx = 1
    /\ starting_stream = None
    /\ next_export = 2
    /\ failed = {}
    /\ req = NoReq
    /\ err = "none"
    /\ ran = <<>>
    /\ resume = None
    /\ runs = 1
    /\ hist = HistInit
    /\ emitted = {}

CallLeads ==
    /\ pc = "get_or_create"
    /\ tap_stream_id = "leads"
    /\ Len(hist.calls) < MaxCalls
    /\ \E now1 \in utcnow(clock) : \E now2 \in utcnow(now1) :
          LET g == get_or_create_export_for_leads(
                       Env, tap_stream_id, use_corona, loc.bookmark_date,
                       now1, now2, next_export)
          IN  /\ state' = g.e.state
              /\ persisted' = g.e.persisted
              /\ hist' = [hist EXCEPT !.calls = Append(@,
                              [export_id |-> g.export_id,
                               export_end |-> g.export_end,
                               created |-> g.created,
                               before |-> state, after |-> g.e.state])]
              /\ IF g.created
                   THEN /\ clock' = now2
                        /\ next_export' = next_export + 1
                        /\ req' = [kind |-> "create", id |-> g.export_id]
                   ELSE /\ now1 = clock /\ now2 = clock
                        /\ UNCHANGED <<clock, next_export>>
                        /\ req' = NoReq
    /\ UNCHANGED <<catalog, emitted, use_corona, pc, idx, starting_stream, loc, failed, err,
                   ran, resume, runs>>

\* get_or_create_export_for_activities returns the id alone; the window end
\* is the export_end it leaves in the state
CallActivities ==
    /\ pc = "get_or_create"
    /\ tap_stream_id \in ActivityStreams
    /\ Len(hist.calls) < MaxCalls
    /\ \E now1 \in utcnow(clock) : \E now2 \in utcnow(now1) :
          LET g == get_or_create_export_for_activities(
                       Env, tap_stream_id, now1, now2, next_export)
          IN  /\ state' = g.e.state
              /\ persisted' = g.e.persisted
              /\ hist' = [hist EXCEPT !.calls = Append(@,
                              [export_id |-> g.export_id,
                               export_end |-> parse(get_bookmark(
                                   g.e.state, tap_stream_id, "export_end")),
                               created |-> g.created,
                               before |-> state, after |-> g.e.state])]
              /\ IF g.created
                   THEN /\ clock' = now2
                        /\ next_export' = next_export + 1
                        /\ req' = [kind |-> "create", id |-> g.export_id]
                   ELSE /\ now1 = clock /\ now2 = clock
                        /\ UNCHANGED <<clock, next_export>>
                        /\ req' = NoReq
    /\ UNCHANGED <<catalog, emitted, use_corona, pc, idx, starting_stream, loc, failed, err,
                   ran, resume, runs>>

NextGoc == CallLeads \/ CallActivities

SpecGetOrCreate == InitGoc /\ [][NextGoc]_vars

----------------------------------------------------------------------------
(* decode_utf8_chunk and gen_export_rows applied to bounded inputs *)

MaxBytes == 4        \* bytes of the buffer given to decode_utf8_chunk
MaxCsvRows == 2      \* data rows of an export file
MaxFields == 2       \* fields of a row of an export file
MaxChunkSize == 2    \* chunk_size of gen_export_rows

\* Bytes by their role in UTF-8: "a" a one-byte character, "L2", "L3", "L4"
\* the first byte of a character of 2, 3, 4 bytes, "c" a continuation byte
ByteKinds == {"a", "L2", "L3", "L4", "c"}

char_len(b) ==
    IF b = "a" THEN 1 ELSE IF b = "L2" THEN 2 ELSE IF b = "L3" THEN 3
    ELSE IF b = "L4" THEN 4 ELSE 0

ByteStrings == UNION {[1..n -> ByteKinds] : n \in 0..MaxBytes}

\* bytes.decode('utf-8'): the characters of bs (each the bytes that encode it),
\* or UnicodeDecodeError when bs holds a stray continuation byte or a character
\* that is cut short
RECURSIVE decode(_)
decode(bs) ==
    IF bs = <<>> THEN [ok |-> TRUE, text |-> <<>>]
    ELSE LET n == char_len(bs[1])
         IN  IF /\ n > 0
                /\ Len(bs) >= n
                /\ \A i \in 2..n : bs[i] = "c"
               THEN LET rest == decode(SubSeq(bs, n + 1, Len(bs)))
                    IN  [ok |-> rest.ok,
                         text |-> IF rest.ok
                                    THEN <<SubSeq(bs, 1, n)>> \o rest.text
                                    ELSE <<>>]
               ELSE [ok |-> FALSE, text |-> <<>>]

\* chunk[:-k] and chunk[-k:]
drop_last(chunk, k) ==
    SubSeq(chunk, 1, IF Len(chunk) > k THEN Len(chunk) - k ELSE 0)

take_last(chunk, k) ==
    SubSeq(chunk, (IF Len(chunk) > k THEN Len(chunk) - k ELSE 0) + 1, Len(chunk))

\* decode_utf8_chunk that gives up after trimming two bytes
decode_utf8_chunk_two(chunk) ==
    IF decode(chunk).ok
      THEN [err |-> "none", text |-> decode(chunk).text, suffix |-> <<>>]
    ELSE IF decode(drop_last(chunk, 1)).ok
      THEN [err |-> "none", text |-> decode(drop_last(chunk, 1)).text,
            suffix |-> take_last(chunk, 1)]
    ELSE IF decode(drop_last(chunk, 2)).ok
      THEN [err |-> "none", text |-> decode(drop_last(chunk, 2)).text,
            suffix |-> take_last(chunk, 2)]
    ELSE [err |-> "UnicodeDecodeError", text |-> <<>>, suffix |-> <<>>]

decode_utf8_chunk(chunk) ==
    IF decode(chunk).ok
      THEN [err |-> "none", text |-> decode(chunk).text, suffix |-> <<>>]
    ELSE IF decode(drop_last(chunk, 1)).ok
      THEN [err |-> "none", text |-> decode(drop_last(chunk, 1)).text,
            suffix |-> take_last(chunk, 1)]
    ELSE IF decode(drop_last(chunk, 2)).ok
      THEN [err |-> "none", text |-> decode(drop_last(chunk, 2)).text,
            suffix |-> take_last(chunk, 2)]
    ELSE IF decode(drop_last(chunk, 3)).ok
      THEN [err |-> "none", text |-> decode(drop_last(chunk, 3)).text,
            suffix |-> take_last(chunk, 3)]
    ELSE [err |-> "UnicodeDecodeError", text |-> <<>>, suffix |-> <<>>]

\* the Range header of download_chunk: first and last byte asked for (both
\* ends of an HTTP byte range are inclusive)
download_chunk(start, chunk_size) ==
    [kind |-> "file", first |-> start, last |-> start + chunk_size]

\* the values of the fields of an export file; one holds a comma and a newline
\* and is quoted in the file
FieldValues == {"x", "y,\nz"}

CsvRows == UNION {[1..n -> FieldValues] : n \in 1..MaxFields}

\* an export file: the header row and the data rows (empty: a file of size 0)
Payloads == UNION {[1..n -> CsvRows] : n \in 0..MaxCsvRows + 1}

RECURSIVE SumLen(_)
SumLen(rows) == IF rows = <<>> THEN 0 ELSE Len(rows[1]) + SumLen(Tail(rows))

\* fileSize of the status response: every field with its separator or line end
fileSize(payload) == 2 * SumLen(payload)

\* fn: the function that is applied
NoLocExport ==
    [fn |-> "none", chunk |-> <<>>, next |-> <<>>, payload |-> <<>>,
     chunk_size |-> 0, og_bookmark_value |-> 0, rows |-> <<>>]

NoHistExport ==
    [first |-> [err |-> "none", text |-> <<>>, suffix |-> <<>>],
     second |-> [err |-> "none", text |-> <<>>, suffix |-> <<>>],
     rows |-> <<>>, ranges |-> <<>>]

\* the updatedAt a record of the leads export can carry, given the bookmark
\* that sync_leads read: 'null', or a time around the bookmark and around the
\* bookmark less the attribution window
UpdatedAts(og) ==
    {NoneStr} \cup
    {isoformat(t) : t \in {subtract_days(og, ATTRIBUTION_WINDOW_DAYS) - 1,
                           subtract_days(og, ATTRIBUTION_WINDOW_DAYS),
                           og - 1, og, og + 1}}

LeadRows(og) ==
    UNION {[1..n -> [updatedAt : UpdatedAts(og)]] : n \in 0..MaxCsvRows}

InitExport ==
    /\ catalog = <<>>
    /\ state = InitState(Clock0, None)
    /\ persisted = state
    /\ clock = Clock0
    /\ idx = 1
    /\ starting_stream = None
    /\ next_export = 2
    /\ failed = {}
    /\ req = NoReq
    /\ err = "none"
    /\ ran = <<>>
    /\ resume = None
    /\ runs = 1
    /\ hist = NoHistExport
    /\ emitted = {}
    /\ \/ /\ pc = "decode_utf8_chunk"
          /\ use_corona = FALSE
          \* a byte string and the place where the download cut it
          /\ \E original \in ByteStrings : \E cut \in 0..Len(original) :
                loc = [NoLocExport EXCEPT
                          !.fn = "decode_utf8_chunk",
                          !.chunk = SubSeq(original, 1, cut),
                          !.next = SubSeq(original, cut + 1, Len(original))]
       \/ /\ pc = "gen_export_rows"
          /\ use_corona = FALSE
          /\ \E payload \in Payloads, chunk_size \in 1..MaxChunkSize :
                loc = [NoLocExport EXCEPT !.fn = "gen_export_rows",
                                          !.payload = payload,
                                          !.chunk_size = chunk_size]
       \/ /\ pc = "leads_row_loop"
          /\ use_corona \in BOOLEAN
          /\ \E og \in StartDates : \E rows \in LeadRows(og) :
                loc = [NoLocExport EXCEPT !.fn = "sync_leads",
                                          !.og_bookmark_value = og,
                                          !.rows = rows]

\* decode_utf8_chunk on the chunk that was downloaded first
DecodeFirst ==
    /\ pc = "decode_utf8_chunk"
    /\ LET d == decode_utf8_chunk(loc.chunk)
       IN  /\ hist' = [hist EXCEPT !.first = d]
           /\ err' = d.err
           /\ pc' = IF d.err = "none" THEN "decode_next" ELSE "aborted"
    /\ UNCHANGED <<catalog, emitted, use_corona, state, persisted, clock, idx, starting_stream,
                   loc, next_export, failed, req, ran, resume, runs>>

\* decode_utf8_chunk on the leftover bytes followed by the next chunk
DecodeNext ==
    /\ pc = "decode_next"
    /\ LET d == decode_utf8_chunk(hist.first.suffix \o loc.next)
       IN  /\ hist' = [hist EXCEPT !.second = d]
           /\ err' = d.err
           /\ pc' = IF d.err = "none" THEN "decoded" ELSE "aborted"
    /\ UNCHANGED <<catalog, emitted, use_corona, state, persisted, clock, idx, starting_stream,
                   loc, next_export, failed, req, ran, resume, runs>>

\* gen_export_rows run to its end on an export whose file is loc.payload
GenExportRows ==
    /\ pc = "gen_export_rows"
    /\ req' = [kind |-> "status", id |-> 1]
    /\ LET g == gen_export_rows(fileSize(loc.payload))
       IN  /\ hist' = [hist EXCEPT !.rows = g.rows, !.ranges = g.ranges]
           /\ err' = g.err
           /\ pc' = IF g.err = "none" THEN "rows_done" ELSE "aborted"
    /\ UNCHANGED <<catalog, emitted, use_corona, state, persisted, clock, idx, starting_stream,
                   loc, next_export, failed, ran, resume, runs>>

\* the body of the row loop of sync_leads, applied to the formatted records
\* loc.rows: hist.rows is what singer.write_record is given
LeadsRowLoop ==
    /\ pc = "leads_row_loop"
    /\ hist' = [hist EXCEPT !.rows =
                    SelectSeq(loc.rows,
                        LAMBDA r : leads_emits(use_corona, r.updatedAt,
                                               loc.og_bookmark_value))]
    /\ pc' = "rows_written"
    /\ UNCHANGED <<catalog, emitted, use_corona, state, persisted, clock, idx, starting_stream,
                   loc, next_export, failed, req, err, ran, resume, runs>>

NextExport == DecodeFirst \/ DecodeNext \/ GenExportRows \/ LeadsRowLoop

SpecExport == InitExport /\ [][NextExport]_vars

----------------------------------------------------------------------------
(* Properties *)

export_id_of(st, sid) == get_bookmark(st, sid, "export_id")

export_end_of(st, sid) == get_bookmark(st, sid, "export_end")

\* C1: write-through state.  Every step of the model runs from one client
\* request (or the entry of a function) to the point just before the next
\* request or the point where the exception leaves, so the states of the
\* model are exactly the points the claim names: at each of them the last
\* snapshot handed to singer.write_state equals the in-memory state.
C1_WriteThrough == persisted = state

\* a run that has stored an export in the state and is about to wait for it
C1_Witness ==
    /\ pc = "leads_wait"
    /\ export_id_of(state, "leads") # NoneId
    /\ state.currently_syncing = "leads"
    /\ persisted = state

\* C2: once wait_for_export has raised ExportFailed in sync_leads or
\* sync_activities, the persisted state of the stream has export_id and
\* export_end None for the rest of the run; no persisted state ever holds a
\* failed export id, and an export that is waited for is never a failed one, so
\* the next attempt of the stream waits for an export that create_export made
\* anew.
C2_FailedExportPurged ==
    /\ hist.export_failed =>
          /\ export_id_of(persisted, tap_stream_id) = NoneId
          /\ export_end_of(persisted, tap_stream_id) = NoneStr
    /\ \A sid \in StreamIds : export_id_of(persisted, sid) \notin failed
    /\ pc \in {"leads_wait", "activities_wait"} =>
          /\ loc.export_id \notin failed
          /\ loc.export_id = export_id_of(persisted, tap_stream_id)

\* the run after an export failure of leads waits for a fresh export
C2_Witness ==
    /\ runs = 2
    /\ resume = "leads"
    /\ failed = {1}
    /\ pc = "leads_wait"
    /\ loc.export_id = 2
    /\ hist.query.id = 2

\* C3: when an exception raised while the rows of an export are streamed has
\* left the stream's sync, export_id and export_end are None in the state and
\* in the last persisted snapshot, the exception that left is the one that was
\* raised, and the replication-key bookmark is what it was before the cleanup.
C3_RowsExceptionCleanup ==
    (pc = "aborted" /\ hist.raised # "none") =>
        /\ export_id_of(persisted, tap_stream_id) = NoneId
        /\ export_end_of(persisted, tap_stream_id) = NoneStr
        /\ persisted = state
        /\ err = hist.raised
        /\ get_bookmark(persisted, tap_stream_id, "rk") = hist.rk_before

\* the row loop of an export created in this run has raised after a
\* successful wait
C3_Witness ==
    /\ pc = "aborted"
    /\ hist.raised = "NameError"
    /\ ~hist.export_failed
    /\ hist.query.id # NoneId
    /\ req = [kind |-> "status", id |-> hist.query.id]

\* C4: an ExportFailed raised while waiting for an export leaves the stream's
\* sync as ExportFailed, after the purge and with no record of the failed export
\* emitted.
C4_ExportFailedReraised ==
    (hist.export_failed /\ pc = "aborted") =>
        /\ err = "ExportFailed"
        /\ export_id_of(persisted, tap_stream_id) = NoneId
        /\ hist.emitted_after_fail = 0

\* C5: after wait_for_export has raised ExportFailed for an export id, no
\* request of the run carries that id.
C5_FailedIdNeverUsed ==
    [][req'.kind \in {"wait", "status", "file"} => req'.id \notin failed]_vars

\* C6: of the calls of get_or_create made in a row on one stream and state,
\* every call after the first returns the export id and the window end of the
\* first, creates no export and leaves the state as it found it; create_export
\* is called once when the state held no export before the first call (and not
\* at all when it held one).
C6_GetOrCreateIdempotent ==
    \A k \in 1..Len(hist.calls) :
        LET first == hist.calls[1]
            call == hist.calls[k]
        IN  /\ call.export_id = first.export_id
            /\ call.export_end = first.export_end
            /\ k > 1 => (~call.created /\ call.after = call.before)
            /\ first.created <=> (export_id_of(first.before, tap_stream_id) = NoneId)
            /\ call.export_id = export_id_of(call.after, tap_stream_id)
            /\ isoformat(call.export_end) = export_end_of(call.after, tap_stream_id)

\* two calls in a row, the first of which created the export
C6_Witness ==
    /\ Len(hist.calls) = 2
    /\ hist.calls[1].created
    /\ hist.calls[2].export_id = hist.calls[1].export_id

\* C7: create_export is called for a stream only while the stream's persisted
\* state holds no export id (held: the persisted export_id at the call).
C7_OneExportInFlight ==
    hist.query.id # NoneId => hist.query.held = NoneId

\* a resumed run reuses the export that the aborted run left in the state
C7_Witness ==
    /\ runs = 2
    /\ pc = "activities_wait"
    /\ hist.query.id = NoneId
    /\ loc.export_id # NoneId
    /\ loc.export_id = export_id_of(persisted, tap_stream_id)

\* C8: the window of every created export ends at min(startAt + 30 days, now)
\* cut to whole seconds, now being the clock when create_export is called; so
\* it is at most 30 days long and does not end after now, and the export_end
\* persisted with the export id is that end.
C8_ExportWindow ==
    hist.query.id # NoneId =>
        LET q == hist.query
            limit == add_days(q.start, MAX_EXPORT_DAYS)
            least == IF limit <= q.now2 THEN limit ELSE q.now2
        IN  /\ parse(q.endAt) = replace_microsecond_0(least)
            /\ parse(q.endAt) - parse(q.startAt) <= MAX_EXPORT_DAYS * Day
            /\ parse(q.endAt) <= q.now2
            /\ (export_id_of(persisted, tap_stream_id) = q.id =>
                    export_end_of(persisted, tap_stream_id) = q.endAt)

\* the selected streams from the resume point on, in catalog order
selected_from(c, r) ==
    LET from == IF r = None THEN 1 ELSE CHOOSE i \in 1..Len(c) : c[i].tap_stream_id = r
        pick[i \in 0..Len(c)] ==
            IF i = 0 THEN <<>>
            ELSE IF i >= from /\ c[i].selected
                   THEN Append(pick[i - 1], c[i].tap_stream_id)
                   ELSE pick[i - 1]
    IN  pick[Len(c)]

\* C9: a sync() that returns normally has run the strategy of exactly the
\* selected streams that do not precede the resume point (of all selected
\* streams when currently_syncing was unset), once each and in catalog order.
C9_ResumeOrdering ==
    (pc = "done" /\ resume \in {None} \cup ids(catalog)) =>
        ran = selected_from(catalog, resume)

\* C10: when sync() returns without error the last persisted state has
\* currently_syncing None.
C10_MarkerCleared ==
    (pc = "done" /\ resume \in {None} \cup ids(catalog)) =>
        persisted.currently_syncing = None

\* the stream that currently_syncing named when the run began is a selected
\* stream of the catalog
resume_selected ==
    \E i \in 1..Len(catalog) :
        catalog[i].tap_stream_id = resume /\ catalog[i].selected

\* C11: crash-resumability.  When an exception has left sync() while stream S
\* was being synced (the "not implemented" error of the dispatch included), the
\* last persisted state names S as currently_syncing and equals the in-memory
\* state, so it holds every bookmark write made before the exception left;
\* nothing is written after that; the next invocation reads that state, and a
\* run that finds a selected stream as currently_syncing enters that stream
\* first.
C11_CrashResumable ==
    /\ [](pc = "aborted" =>
             /\ err # "none"
             /\ persisted.currently_syncing = tap_stream_id
             /\ persisted = state)
    /\ [][pc = "aborted" =>
             /\ persisted' = persisted
             /\ state' = persisted
             /\ resume' = tap_stream_id]_vars
    /\ [](resume_selected =>
             /\ ran # <<>> => ran[1] = resume
             /\ (pc = "aborted" /\ ran = <<>>) => tap_stream_id = resume
             /\ pc = "done" => ran # <<>>)

\* the run after an abort in sync_paginated, which had stored a page token, has
\* entered the same stream again
C11_Witness ==
    /\ runs = 2
    /\ resume = "campaigns"
    /\ pc = "paginated_loop"
    /\ ran = <<"campaigns">>
    /\ get_bookmark(persisted, "campaigns", "next_page_token") # NoneId

\* C12: a sync_paginated that found a token in the state sends that token with
\* its first request, and no request of that call goes without a token.
C12_ResumesFromToken ==
    [][(pc = "paginated_loop" /\ req'.kind = "page"
            /\ loc.next_page_token # NoneId) =>
           /\ req'.id # NoneId
           /\ req.kind # "page" => req'.id = loc.next_page_token]_vars

\* a resumed sync_paginated has sent its first request with the stored token
C12_Witness ==
    /\ runs = 2
    /\ pc = "stream_done"
    /\ tap_stream_id \in PaginatedStreams
    /\ loc.next_page_token # NoneId
    /\ req = [kind |-> "page", id |-> loc.next_page_token]

\* C13: the sync of a leads stream whose bookmark is 45 days old, on an
\* account without Corona, ends (when no request of the client fails and no
\* export job fails) by returning after exactly two export windows of at most
\* 30 days each, the second starting where the first ends, both queried on
\* createdAt, with the bookmark at the second window's end and export_id and
\* export_end None.
C13_TwoWindows ==
    (/\ pc \in {"stream_done", "aborted"}
     /\ tap_stream_id = "leads"
     /\ ~use_corona
     /\ runs = 1
     /\ err # "ClientError"
     /\ ~hist.export_failed
     /\ loc.og_bookmark_value = Bookmark45) =>
        /\ pc = "stream_done"
        /\ Len(hist.windows) = 2
        /\ \A k \in 1..Len(hist.windows) :
               /\ hist.windows[k].field = "createdAt"
               /\ parse(hist.windows[k].endAt) - parse(hist.windows[k].startAt)
                      <= MAX_EXPORT_DAYS * Day
        /\ hist.windows[2].startAt = hist.windows[1].endAt
        /\ get_bookmark(persisted, "leads", "rk") = hist.windows[2].endAt
        /\ export_id_of(persisted, "leads") = NoneId
        /\ export_end_of(persisted, "leads") = NoneStr

\* dict(zip(headers, row))
csv_dict(headers, row) == [i \in 1..Len(row) |-> <<headers[i], row[i]>>]

\* the data rows of a file whose field count differs from the header's
bad_rows(payload) == {k \in 2..Len(payload) : Len(payload[k]) # Len(payload[1])}

\* the row dictionaries of the data rows 2..n of a file, parsed in one pass
one_pass_rows(payload, n) == [k \in 1..(n - 1) |-> csv_dict(payload[1], payload[k + 1])]

gen_export_rows_ended ==
    /\ loc.fn = "gen_export_rows"
    /\ pc \in {"rows_done", "aborted"}

\* C14: gen_export_rows, run on a file with data rows that all have the
\* header's field count, ends without an exception and has yielded the row
\* dictionaries that parsing the file in one pass gives, whatever the chunk
\* size (the file of the model has fields with a quoted comma and newline).
C14_ChunkingInvariant ==
    (/\ gen_export_rows_ended
     /\ Len(loc.payload) >= 2
     /\ bad_rows(loc.payload) = {}) =>
        /\ err = "none"
        /\ hist.rows = one_pass_rows(loc.payload, Len(loc.payload))

\* C15: gen_export_rows, run on a file with a data row whose field count
\* differs from the header's, raises NonRectangularCsvRow after yielding
\* exactly the rows before the first such row.
C15_NonRectangularRaises ==
    (/\ gen_export_rows_ended
     /\ bad_rows(loc.payload) # {}) =>
        LET k == CHOOSE k \in bad_rows(loc.payload) :
                     \A j \in bad_rows(loc.payload) : k <= j
        IN  /\ err = "NonRectangularCsvRow"
            /\ hist.rows = one_pass_rows(loc.payload, k - 1)

\* the length of the longest prefix of bs that decodes
boundary(bs) ==
    CHOOSE j \in 0..Len(bs) :
        /\ decode(SubSeq(bs, 1, j)).ok
        /\ \A i \in (j + 1)..Len(bs) : ~decode(SubSeq(bs, 1, i)).ok

\* C16: decode_utf8_chunk on a chunk cut out of valid UTF-8 returns the text
\* of the whole characters of the chunk and, as suffix, exactly the bytes of
\* the character that the cut left incomplete (none to 3 bytes); the text of
\* the first chunk followed by the text of suffix + next chunk is the text of
\* the unsplit bytes.  On any chunk it raises exactly when the chunk does not
\* decode with 0, 1, 2 or 3 bytes trimmed.
C16_DecodeChunk ==
    (loc.fn = "decode_utf8_chunk" /\ pc # "decode_utf8_chunk") =>
        LET original == loc.chunk \o loc.next
            b == boundary(loc.chunk)
        IN  /\ (hist.first.err # "none") <=>
                   \A k \in 0..3 : ~decode(drop_last(loc.chunk, k)).ok
            /\ decode(original).ok =>
                   /\ pc # "aborted"
                   /\ hist.first.suffix = SubSeq(loc.chunk, b + 1, Len(loc.chunk))
                   /\ Len(hist.first.suffix) <= 3
                   /\ hist.first.text = decode(SubSeq(loc.chunk, 1, b)).text
                   /\ pc = "decoded" =>
                          /\ hist.first.text \o hist.second.text = decode(original).text
                          /\ hist.second.suffix = <<>>

\* a 4-byte character cut after its third byte, and both chunks decoded
C16_Witness ==
    /\ loc.fn = "decode_utf8_chunk"
    /\ pc = "decoded"
    /\ hist.first.suffix = <<"L4", "c", "c">>
    /\ loc.next = <<"c">>
    /\ hist.second.text = <<<<"L4", "c", "c", "c">>>>

\* the byte ranges that cover bytes 0..size-1 in pieces of chunk_size bytes
chunk_ranges(size, chunk_size) ==
    [k \in 1..((size + chunk_size - 1) \div chunk_size) |->
        [kind |-> "file", first |-> (k - 1) * chunk_size,
         last |-> k * chunk_size - 1]]

\* C19: the range requests of a gen_export_rows that has read an export of N
\* bytes (a file whose rows all have the header's field count) ask, in order,
\* for chunk_size bytes each from offsets 0, chunk_size, 2 * chunk_size, ...
\* below N: no byte of [0, N) is asked for twice and none is left out.
C19_RangesCover ==
    (/\ gen_export_rows_ended
     /\ Len(loc.payload) >= 2
     /\ bad_rows(loc.payload) = {}) =>
        hist.ranges = chunk_ranges(fileSize(loc.payload), loc.chunk_size)

\* C17: of the records that the row loop of sync_leads is given, the ones it
\* writes are, on an account without Corona, exactly those whose updatedAt is
\* not before the bookmark read at entry less the attribution window (a record
\* whose updatedAt is 'null' has no time to compare and is written); on an
\* account with Corona, all of them.
C17_LeadsFilter ==
    (loc.fn = "sync_leads" /\ pc = "rows_written") =>
        hist.rows =
            SelectSeq(loc.rows,
                LAMBDA r :
                    \/ use_corona
                    \/ r.updatedAt = NoneStr
                    \/ parse(r.updatedAt) >=
                           subtract_days(loc.og_bookmark_value, ATTRIBUTION_WINDOW_DAYS))

\* C18: a sync_activities that ends with no request of the client failed and
\* no export job failed has returned, with the bookmark not before the time it
\* started and export_id and export_end None; every window it exported starts
\* where the one before ends and the bookmark is the end of the last.
C18_ActivitiesWindows ==
    (/\ pc \in {"stream_done", "aborted"}
     /\ tap_stream_id \in ActivityStreams
     /\ err # "ClientError"
     /\ ~hist.export_failed) =>
        /\ pc = "stream_done"
        /\ parse(get_bookmark(persisted, tap_stream_id, "rk")) >= loc.job_started
        /\ export_id_of(persisted, tap_stream_id) = NoneId
        /\ export_end_of(persisted, tap_stream_id) = NoneStr
        /\ \A k \in 2..Len(hist.windows) :
               hist.windows[k].startAt = hist.windows[k - 1].endAt
        /\ hist.windows # <<>> =>
               get_bookmark(persisted, tap_stream_id, "rk") =
                   hist.windows[Len(hist.windows)].endAt

C21_LeadsBookmarkMonotone ==
    (pc = "stream_done" /\ tap_stream_id = "leads") =>
        parse(get_bookmark(persisted, "leads", "rk")) >= loc.og_bookmark_value

\* C22: a page token is in the persisted state only when every record of the
\* page whose response carried it, and of the pages before, has been passed to
\* the filter (in this run or in the runs since the stream last finished); and
\* when sync_paginated has returned, that is so for every page up to the last.
C22_NoPageSkipped ==
    /\ \A sid \in PaginatedStreams \cap StreamIds :
          LET t == get_bookmark(persisted, sid, "next_page_token")
          IN  t # NoneId => \A p \in 1..(t - 1) : p \in emitted
    /\ (pc = "stream_done" /\ tap_stream_id \in PaginatedStreams) =>
          \A p \in 1..page_of(req.id) : p \in emitted

\* a run that fails on the second page, after the first was written and its
\* token stored, and the run after it, which resumed from the token and went
\* through the last page
C22_Witness ==
    /\ runs = 2
    /\ resume = "campaigns"
    /\ pc = "stream_done"
    /\ loc.next_page_token = 2
    /\ emitted = {1, 2}

\* the positions inside sync_leads and sync_activities, and the one after an
\* exception left them
export_pcs ==
    {"leads_loop", "leads_wait", "leads_rows",
     "activities_loop", "activities_wait", "activities_rows", "aborted"}

\* the persisted replication-key bookmark of the stream being synced
persisted_rk == parse(get_bookmark(persisted, tap_stream_id, "rk"))

\* C23: for leads and activities, once the export of a window has reported
\* failure the persisted replication-key bookmark stays before the end of that
\* window for the rest of the run; and a step that moves the persisted
\* bookmark to the end of the current window or beyond is the step after the
\* rows of that window, taken when the export did not fail and no exception
\* was raised.
C23_AdvanceOnlyAfterRows ==
    /\ []((pc \in export_pcs /\ hist.export_failed) =>
              persisted_rk < hist.window_end)
    /\ [][(/\ pc \in export_pcs \ {"aborted"}
            /\ hist.window_end # 0
            /\ persisted' # persisted
            /\ parse(get_bookmark(persisted', tap_stream_id, "rk"))
                   >= hist.window_end)
           => (/\ pc \in {"leads_rows", "activities_rows"}
               /\ ~hist.export_failed
               /\ pc' # "aborted")]_vars

\* a leads export that reported failure under Corona, after which the row loop
\* raised: the export is cleared and the bookmark is where the run found it
C23_Witness ==
    /\ pc = "aborted"
    /\ tap_stream_id = "leads"
    /\ use_corona
    /\ hist.export_failed
    /\ hist.window_end # 0
    /\ export_id_of(persisted, "leads") = NoneId
    /\ persisted_rk = loc.og_bookmark_value
    /\ persisted_rk < hist.window_end

====
